---- MODULE Spec2Model ----
(***************************************************************************)
(* Extraction orchestration, two-tier deduplication and the background job *)
(* scheduler of the HR extraction service.                                 *)
(*                                                                         *)
(*   SpecJobs : BackgroundProcessingService (job table, timer ticks)       *)
(*   Spec     : HrExtractionService / UserHrExtractionService on top of    *)
(*              MongoDBService and UserHrDataService (the two corpora)     *)
(*   SpecUser : the user-scope extraction and its cross-reference save     *)
(*   SpecSingle  : GrokService.analyzeHrDataSingle (retry loop, parsing)   *)
(*   SpecSplit   : GrokService.splitTextIntoChunks                         *)
(*   SpecAnalyze : analyzeHrData / analyzeHrDataInChunks up to the result  *)
(*                 the extraction services return                          *)
(*   SpecValidate: the text entry points and their input check             *)
(*   SpecUserOps : the record operations of UserHrDataService              *)
(*   SpecWriters : concurrent calls of MongoDBService.saveHrData           *)
(*   SpecJobsLive: the scheduler under fair timer firings                  *)
(*   SpecUserSave: UserHrDataService.saveUserHrData next to the corpus     *)
(*   SpecDedup   : GrokService.removeDuplicatePeople                       *)
(*   SpecParse   : GrokService.parseGrokResponse                           *)
(*                                                                         *)
(* The document store is modelled as two insertion-ordered collections;    *)
(* its calls return (a store call that throws is modelled only where the   *)
(* caller's handling of it is part of an operation: the scheduler tick).   *)
(***************************************************************************)
EXTENDS Integers, Sequences, FiniteSets, TLC

VARIABLES
    jobs,        \* BackgroundProcessingService.jobs, in creation (Map insertion) order
    inflight,    \* executions of processNextJob that are suspended at an await
    nextTick,    \* number of timer firings so far + 1
    tickLog,     \* history: one entry per finished execution of processNextJob
    master,      \* the shared corpus (collection hr_data), in insertion order
    userData,    \* the per-user corpus (collection of UserHrData), in insertion order
    nextId,      \* next document _id handed out by the store
    pending,     \* user-scope extractions suspended between extractFromText and saveUserHrData
    callLog,     \* history: one entry per finished extraction / deletion request
    providerCalls, \* number of requests sent to the AI provider
    single,      \* one invocation of GrokService.analyzeHrDataSingle
    split,       \* one call of GrokService.splitTextIntoChunks: arguments and result
    analysis,    \* one extraction request from its analyzeHrData call to its return
    writers      \* concurrent calls of MongoDBService.saveHrData, each at its await

vars == <<jobs, inflight, nextTick, tickLog, master, userData, nextId,
          pending, callLog, providerCalls, single, split, analysis, writers>>

jobVars == <<jobs, inflight, nextTick, tickLog>>
extractVars == <<userData, pending, callLog, providerCalls>>
clientVars == <<single, split, analysis, writers>>

(***************************************************************************)
(* Bounds of the model                                                     *)
(***************************************************************************)
MaxJobs == 2
MaxTicks == 3
MaxInFlight == 2
MaxCalls == 2
MaxPeople == 2
MaxUserPeople == 1

(***************************************************************************)
(* Program constants                                                       *)
(***************************************************************************)
chunkSize == 50000
TickIntervalMs == 2 * 60 * 1000
baseDelay == 10000
maxRetries == 3

\* lengths of the uploaded files handed to createBackgroundJob
FileLengths == {0, 50000, 50001}

(***************************************************************************)
(* Persons and the deduplication rule                                      *)
(***************************************************************************)
NoEmail == ""

Person(n, e, c) == [name |-> n, email |-> e, company |-> c]

\* the persons an analysis can return (cleanEmail turns a missing or
\* malformed address into the empty string)
People ==
    { Person("Ann", "ann@x.com", "Acme"),
      Person("Ann", NoEmail, "Acme") }

RECURSIVE SeqsUpTo(_, _)
SeqsUpTo(S, n) ==
    IF n = 0 THEN { <<>> }
    ELSE LET shorter == SeqsUpTo(S, n - 1)
         IN  shorter \cup { Append(s, x) : s \in { q \in shorter : Len(q) = n - 1 }, x \in S }

\* the people array of one parsed provider response
PeopleLists == SeqsUpTo(People, MaxPeople)

PersonOf(rec) == Person(rec.name, rec.email, rec.company)

\* the $or filter of the duplicate lookups
Matches(rec, c) ==
    \/ (rec.email = c.email /\ rec.name = c.name)
    \/ rec.email = c.email
    \/ (rec.name = c.name /\ rec.company = c.company)

NoRecord == [id |-> 0]

\* Model.findOne on an insertion-ordered collection: the first of the
\* documents at the given positions
FindOne(coll, hits) ==
    IF hits # {}
    THEN coll[CHOOSE i \in hits : \A k \in hits : i <= k]
    ELSE NoRecord

\* positions of the documents the $or filter selects
MatchesIn(coll, c) == { i \in 1..Len(coll) : Matches(coll[i], c) }

TestNotMaster(c, coll) == FindOne(coll, MatchesIn(coll, c)) = NoRecord

filterDuplicateRecords(coll, hrDataArray) ==
    SelectSeq(hrDataArray, LAMBDA c : TestNotMaster(c, coll))

\* the documents saveHrData hands to insertMany, with their fresh _ids
NewMasterDocs(records, batchId, chunkIndex, firstId) ==
    [ i \in 1..Len(records) |->
        [id |-> firstId + i - 1,
         name |-> records[i].name, email |-> records[i].email,
         company |-> records[i].company,
         batchId |-> batchId, chunkIndex |-> chunkIndex] ]

\* MongoDBService.saveHrData: the collection after the call
saveHrData(coll, hrDataArray, batchId, chunkIndex, firstId) ==
    coll \o NewMasterDocs(filterDuplicateRecords(coll, hrDataArray),
                          batchId, chunkIndex, firstId)

\* number of documents saveHrData inserted
savedCount(coll, hrDataArray) == Len(filterDuplicateRecords(coll, hrDataArray))

(***************************************************************************)
(* BackgroundProcessingService                                             *)
(***************************************************************************)
CeilDiv(a, b) == (a + b - 1) \div b

JobBatch(j) == [kind |-> "job", user |-> 0, hash |-> j, rand |-> 0]

NewJob(len) ==
    [status |-> "pending",
     fileLength |-> len,
     totalChunks |-> CeilDiv(len, chunkSize),
     processedChunks |-> 0,
     startedAt |-> 0,
     completedAt |-> 0,
     errorMessage |-> ""]

\* the filter of processNextJob
pendingJobs == { j \in 1..Len(jobs) : jobs[j].status \in {"pending", "processing"} }

\* variant of FirstPending: the latest-created job is taken
LastPending == CHOOSE j \in pendingJobs : \A k \in pendingJobs : j >= k

FirstPending == CHOOSE j \in pendingJobs : \A k \in pendingJobs : j <= k

RECURSIVE Pow2(_)
Pow2(k) == IF k = 0 THEN 1 ELSE 2 * Pow2(k - 1)

RECURSIVE BackoffSum(_)
BackoffSum(k) == IF k < 0 THEN 0 ELSE baseDelay * Pow2(k) + BackoffSum(k - 1)

\* analyzeHrDataSingle answered 429 on every attempt sleeps this long in total,
\* so one execution of processNextJob can outlast the timer interval
WorstBackoffMs == BackoffSum(maxRetries)

TickMayOverrun == WorstBackoffMs > TickIntervalMs

\* the results the analysis of one background chunk can yield
ChunkResults == { <<>>, <<Person("Ann", "ann@x.com", "Acme")>> }

TickIds == { t.id : t \in inflight }

TickOf(id) == CHOOSE t \in inflight : t.id = id

createBackgroundJob(len) ==
    /\ Len(jobs) < MaxJobs
    /\ jobs' = Append(jobs, NewJob(len))
    /\ UNCHANGED <<inflight, nextTick, tickLog, master, nextId>>
    /\ UNCHANGED extractVars
    /\ UNCHANGED clientVars

\* the timer fires and no job is pending or processing
TickIdle ==
    /\ nextTick <= MaxTicks
    /\ inflight = {} \/ TickMayOverrun
    /\ pendingJobs = {}
    /\ nextTick' = nextTick + 1
    /\ tickLog' = Append(tickLog, [tick |-> nextTick, job |-> 0, outcome |-> "idle", chunk |-> 0])
    /\ UNCHANGED <<jobs, inflight, master, nextId>>
    /\ UNCHANGED extractVars
    /\ UNCHANGED clientVars

\* the timer fires: processNextJob up to the first await of processJobChunk
TickStart ==
    /\ nextTick <= MaxTicks
    /\ Cardinality(inflight) < MaxInFlight
    /\ inflight = {} \/ TickMayOverrun
    /\ pendingJobs # {}
    /\ LET j == FirstPending
       IN  /\ jobs' = [jobs EXCEPT ![j].status = "processing",
                                   ![j].startedAt = IF @ = 0 THEN nextTick ELSE @]
           /\ inflight' = inflight \cup { [id |-> nextTick, job |-> j, pc |-> "read", chunk |-> 0] }
    /\ nextTick' = nextTick + 1
    /\ UNCHANGED <<tickLog, master, nextId>>
    /\ UNCHANGED extractVars
    /\ UNCHANGED clientVars

\* processJobChunk after readFile: the chunk is cut at processedChunks * chunkSize
TickRead(id) ==
    /\ id \in TickIds
    /\ LET t == TickOf(id)
       IN  /\ t.pc = "read"
           /\ inflight' = (inflight \ {t}) \cup
                 { [t EXCEPT !.pc = "analyze", !.chunk = jobs[t.job].processedChunks] }
    /\ UNCHANGED <<jobs, nextTick, tickLog, master, nextId>>
    /\ UNCHANGED extractVars
    /\ UNCHANGED clientVars

\* variant of advanced: the counter is bumped twice
advancedByTwo(job) == [job EXCEPT !.processedChunks = @ + 2]

advanced(job) == [job EXCEPT !.processedChunks = @ + 1]

\* variant of finished: strict comparison
finishedStrict(job) == job.processedChunks > job.totalChunks

finished(job) == job.processedChunks >= job.totalChunks

\* the job after a successful processJobChunk and the completion test of processNextJob
afterChunk(job, now) ==
    LET a == advanced(job)
    IN  IF finished(a) THEN [a EXCEPT !.status = "completed", !.completedAt = now] ELSE a

\* analysis and save returned: rest of processJobChunk and of processNextJob
TickSucceed(id, people) ==
    /\ id \in TickIds
    /\ LET t == TickOf(id)
           j == t.job
       IN  /\ t.pc = "analyze"
           /\ master' = saveHrData(master, people, JobBatch(j), jobs[j].processedChunks, nextId)
           /\ nextId' = nextId + savedCount(master, people)
           /\ jobs' = [jobs EXCEPT ![j] = afterChunk(@, id)]
           /\ inflight' = inflight \ {t}
           /\ tickLog' = Append(tickLog, [tick |-> id, job |-> j, outcome |-> "ok", chunk |-> t.chunk])
    /\ UNCHANGED nextTick
    /\ UNCHANGED extractVars
    /\ UNCHANGED clientVars

\* variant of failedJob: the error is recorded but the status is left alone
failedJobStillLive(job, now) ==
    [job EXCEPT !.errorMessage = "error", !.completedAt = now]

failedJob(job, now) ==
    [job EXCEPT !.status = "failed", !.errorMessage = "error", !.completedAt = now]

\* readFile, the analysis or the save threw: the catch block of processNextJob
TickFail(id) ==
    /\ id \in TickIds
    /\ LET t == TickOf(id)
           j == t.job
       IN  /\ jobs' = [jobs EXCEPT ![j] = failedJob(@, id)]
           /\ inflight' = inflight \ {t}
           /\ tickLog' = Append(tickLog, [tick |-> id, job |-> j, outcome |-> "fail",
                                           chunk |-> IF t.pc = "read" THEN jobs[j].processedChunks ELSE t.chunk])
    /\ UNCHANGED <<nextTick, master, nextId>>
    /\ UNCHANGED extractVars
    /\ UNCHANGED clientVars

(***************************************************************************)
(* GrokService                                                             *)
(***************************************************************************)
\* confidences are counted in sixtieths, so that the averages over up to three
\* chunks of the confidences of the model are whole numbers
ConfidenceScale == 60

Tenths(n) == n * (ConfidenceScale \div 10)

NumberValue(v) == [isNumber |-> TRUE, value |-> v]

\* a confidence field that is absent or not a JSON number
NotANumber == [isNumber |-> FALSE, value |-> 0]

\* the confidence fields a provider answer can carry
RawConfidences ==
    { NumberValue(Tenths(-5)), NumberValue(0), NumberValue(Tenths(8)), NumberValue(Tenths(15)), NotANumber }

ValidEmails == { "ann@x.com" }

\* the entries of a provider answer's people array: a usable one, one whose
\* address does not match the e-mail pattern, one without a name
RawPeople ==
    { Person("Ann", "ann@x.com", "Acme"), Person("Ann", "ann-at-x", "Acme"), Person("", "ann@x.com", "Acme") }

\* a name of white space only
BlankName == "  "

\* value.trim() on the strings of the model
cleanString(value) == IF value = BlankName THEN "" ELSE value

\* the address when it matches /^[^\s@]+@[^\s@]+\.[^\s@]+$/, else ''
cleanEmail(value) ==
    LET email == cleanString(value)
    IN  IF email \in ValidEmails THEN email ELSE ""

\* the filter and map of parseGrokResponse over parsed.people
cleanedPeople(people) ==
    LET named == SelectSeq(people, LAMBDA person : person.name # "")
    IN  [ i \in 1..Len(named) |->
            Person(cleanString(named[i].name), cleanEmail(named[i].email),
                   cleanString(named[i].company)) ]

Min(a, b) == IF a <= b THEN a ELSE b

Max(a, b) == IF a >= b THEN a ELSE b

\* variant of clampConfidence: the parsed value is passed through
unclampedConfidence(c) == IF c.isNumber THEN c.value ELSE Tenths(5)

clampConfidence(c) == Max(0, Min(ConfidenceScale, IF c.isNumber THEN c.value ELSE Tenths(5)))

AnalysisResult(people, confidence, summary) ==
    [people |-> people, confidence |-> confidence, summary |-> summary]

\* the catch block of parseGrokResponse
parseFallback == AnalysisResult(<<>>, Tenths(1), "Failed to parse AI response")

\* A provider answer, by what parseGrokResponse reads off its text:
\*   fenced        - the text holds a complete ```json block
\*   braces        - an opening brace with a closing brace after it
\*   endsWithBrace - the trimmed block ends with a closing brace (the bare
\*                   substring from the first to the last brace always does)
\*   parses        - "asis": JSON.parse accepts the JSON string; "fixed": only
\*                   after the comma fixes; "no": neither
\*   hasPeople, people, confidence - of the parsed value: whether people is an
\*                   array, its entries, the confidence field
\*   matches       - the matches of /\{\s*"name"[^}]*\}/g, each with whether
\*                   JSON.parse accepts it and the object it gives
Match(parses, person) == [parses |-> parses, person |-> person]

\* a match that JSON.parse rejects
BadMatch == Match(FALSE, Person("", "", ""))

Text(shape, fenced, braces, endsWithBrace, parses, hasPeople, people, confidence, matches) ==
    [shape |-> shape, fenced |-> fenced, braces |-> braces, endsWithBrace |-> endsWithBrace,
     parses |-> parses, hasPeople |-> hasPeople, people |-> people, confidence |-> confidence,
     matches |-> matches, matched |-> Len(matches)]

\* The answers by shape:
\*   valid     - a JSON object is found and parses
\*   nojson    - no JSON object is found
\*   nopeople  - the object parses but people is missing or not an array
\*   truncated - a block that does not end with a closing brace and does not
\*               parse; matched person objects are found, of which people are
\*               those that parse on their own
Content(shape, people, matched, confidence) ==
    CASE shape = "valid" -> Text(shape, FALSE, TRUE, TRUE, "asis", TRUE, people, confidence, << >>)
      [] shape = "nopeople" -> Text(shape, FALSE, TRUE, TRUE, "asis", FALSE, << >>, confidence, << >>)
      [] shape = "truncated" ->
            Text(shape, TRUE, TRUE, FALSE, "no", FALSE, << >>, confidence,
                 [ i \in 1..Len(people) |-> Match(TRUE, people[i]) ]
                    \o [ i \in 1..(matched - Len(people)) |-> BadMatch ])
      [] OTHER -> Text(shape, FALSE, FALSE, TRUE, "no", FALSE, << >>, confidence, << >>)

NoContent == Content("none", <<>>, 0, NotANumber)

\* personMatches.map(JSON.parse or null).filter(Boolean)
peopleArray(matches) ==
    LET good == SelectSeq(matches, LAMBDA m : m.parses)
    IN  [ i \in 1..Len(good) |-> good[i].person ]

Parsed(threw, hasPeople, people, confidence) ==
    [threw |-> threw, hasPeople |-> hasPeople, people |-> people, confidence |-> confidence]

\* the value of `parsed` before the structure check, or the throw on the way
parsedValue(content) ==
    LET endsWithBrace == IF content.fenced THEN content.endsWithBrace ELSE TRUE
        recovered == peopleArray(content.matches)
    IN  IF ~content.fenced /\ ~content.braces
        THEN Parsed(TRUE, FALSE, << >>, NotANumber)
        ELSE IF ~endsWithBrace /\ Len(recovered) > 0
        THEN Parsed(FALSE, TRUE, recovered, NumberValue(Tenths(8)))
        ELSE IF content.parses \in {"asis", "fixed"}
        THEN Parsed(FALSE, content.hasPeople, content.people, content.confidence)
        ELSE IF Len(content.matches) > 0
        THEN Parsed(FALSE, TRUE, recovered, NumberValue(Tenths(7)))
        ELSE Parsed(TRUE, FALSE, << >>, NotANumber)

parseGrokResponse(content) ==
    LET parsed == parsedValue(content)
    IN  IF parsed.threw \/ ~parsed.hasPeople
        THEN parseFallback
        ELSE AnalysisResult(cleanedPeople(parsed.people), clampConfidence(parsed.confidence),
                            "HR data extracted successfully")

\* the answers the provider gives in the model
Contents ==
    { Content("valid", <<p>>, 0, c) : p \in RawPeople, c \in RawConfidences }
      \cup { Content("valid", <<>>, 0, c) : c \in RawConfidences }
      \cup { Content("nojson", <<>>, 0, NotANumber), Content("nopeople", <<>>, 0, NumberValue(Tenths(8))) }
      \cup { Content("truncated", <<p>>, 2, NotANumber) : p \in RawPeople }
      \cup { Content("truncated", <<>>, m, NotANumber) : m \in {0, 1} }

\* how one request to the provider ends: the fetch rejects, HTTP 429, another
\* HTTP error status, a body that is not JSON or carries no text, or a text
ProviderOutcome(status, content) == [status |-> status, content |-> content]

FailedOutcomes == { ProviderOutcome(st, NoContent) : st \in {"429", "http", "network", "empty"} }

ProviderOutcomes == FailedOutcomes \cup { ProviderOutcome("ok", c) : c \in Contents }

SingleIdle ==
    [pc |-> "idle", retryCount |-> 0, calls |-> 0, slept |-> 0, outcomes |-> <<>>,
     answer |-> NoContent, result |-> parseFallback]

\* variant of mayAttempt: the last attempt is not made
mayAttemptStrict(retryCount) == retryCount < maxRetries

\* variant of mayAttempt: one attempt more
mayAttemptOneMore(retryCount) == retryCount <= maxRetries + 1

\* the condition of the while loop of analyzeHrDataSingle
mayAttempt(retryCount) == retryCount <= maxRetries

\* the condition of the retry in its catch block
mayRetry(retryCount) == retryCount < maxRetries

\* after retryCount++ the loop is entered again or left for the final throw
backInLoop(s) ==
    IF mayAttempt(s.retryCount) THEN s ELSE [s EXCEPT !.pc = "threw"]

\* analyzeHrDataSingle is called
singleStart ==
    /\ single.pc = "idle"
    /\ single' = backInLoop([single EXCEPT !.pc = "loop"])
    /\ UNCHANGED <<jobVars, extractVars, master, nextId, split, analysis, writers>>

\* one pass of the loop: the request, its handling and the sleep before the next pass
singleAttempt(o) ==
    /\ single.pc = "loop"
    /\ LET s == [single EXCEPT !.calls = @ + 1, !.outcomes = Append(@, o.status)]
           delay == baseDelay * Pow2(single.retryCount)
       IN  single' =
             IF o.status = "ok"
             THEN [s EXCEPT !.pc = "returned", !.answer = o.content,
                            !.result = parseGrokResponse(o.content)]
             ELSE IF o.status = "429" \/ mayRetry(single.retryCount)
             THEN backInLoop([s EXCEPT !.retryCount = @ + 1, !.slept = @ + delay])
             ELSE [s EXCEPT !.pc = "threw"]
    /\ UNCHANGED <<jobVars, extractVars, master, nextId, split, analysis, writers>>

(***************************************************************************)
(* GrokService.splitTextIntoChunks                                         *)
(* A text is a sequence of characters.                                     *)
(***************************************************************************)
Newline == "\n"

Chars == { "a", " ", Newline }

\* String.prototype.split('\n')
RECURSIVE SplitLines(_)
SplitLines(text) ==
    IF \A i \in 1..Len(text) : text[i] # Newline
    THEN << text >>
    ELSE LET i == CHOOSE k \in 1..Len(text) :
                      text[k] = Newline /\ \A m \in 1..(k - 1) : text[m] # Newline
         IN  << SubSeq(text, 1, i - 1) >> \o SplitLines(SubSeq(text, i + 1, Len(text)))

IsSpace(c) == c \in { " ", Newline }

RECURSIVE TrimStart(_)
TrimStart(s) == IF Len(s) > 0 /\ IsSpace(s[1]) THEN TrimStart(Tail(s)) ELSE s

RECURSIVE TrimEnd(_)
TrimEnd(s) == IF Len(s) > 0 /\ IsSpace(s[Len(s)]) THEN TrimEnd(SubSeq(s, 1, Len(s) - 1)) ELSE s

\* String.prototype.trim()
Trim(s) == TrimEnd(TrimStart(s))

\* variant of exceeds: a chunk may be one character longer
exceedsByTwo(currentChunk, line, maxChunkSize) ==
    Len(currentChunk) + Len(line) + 1 > maxChunkSize + 1 /\ Len(currentChunk) > 0

\* the test that closes the current chunk before a line
exceeds(currentChunk, line, maxChunkSize) ==
    Len(currentChunk) + Len(line) + 1 > maxChunkSize /\ Len(currentChunk) > 0

\* the for loop of splitTextIntoChunks from line i on
RECURSIVE splitLoop(_, _, _, _, _)
splitLoop(lines, i, chunks, currentChunk, maxChunkSize) ==
    IF i > Len(lines)
    THEN IF Len(Trim(currentChunk)) > 0 THEN Append(chunks, Trim(currentChunk)) ELSE chunks
    ELSE IF exceeds(currentChunk, lines[i], maxChunkSize)
    THEN splitLoop(lines, i + 1, Append(chunks, Trim(currentChunk)), lines[i], maxChunkSize)
    ELSE splitLoop(lines, i + 1, chunks,
                   currentChunk \o (IF Len(currentChunk) > 0 THEN << Newline >> ELSE << >>) \o lines[i],
                   maxChunkSize)

splitTextIntoChunks(text, maxChunkSize) ==
    splitLoop(SplitLines(text), 1, << >>, << >>, maxChunkSize)

SplitIdle == [text |-> << >>, maxChunkSize |-> 1, chunks |-> << >>, done |-> FALSE]

\* splitTextIntoChunks is called and returns
splitText ==
    /\ ~split.done
    /\ split' = [split EXCEPT !.chunks = splitTextIntoChunks(split.text, split.maxChunkSize),
                              !.done = TRUE]
    /\ UNCHANGED <<jobVars, extractVars, master, nextId, single, analysis, writers>>

\* the result an extraction request returns: success, data.people and
\* data.metadata.confidence
ExtractionResult(people, confidence) ==
    [success |-> TRUE, people |-> people, confidence |-> confidence]

AnalysisIdle ==
    [pc |-> "idle", scope |-> "shared", user |-> 0, totalChunks |-> 0,
     i |-> 0, retryCount |-> 0, allPeople |-> << >>, totalConfidence |-> 0,
     processedChunks |-> 0, failedChunks |-> 0,
     calls |-> 0, saves |-> << >>, events |-> << >>,
     aiResult |-> parseFallback, result |-> ExtractionResult(<< >>, 0)]

(***************************************************************************)
(* Concurrent callers of MongoDBService.saveHrData                         *)
(***************************************************************************)
\* the callers that write to the shared corpus: the onChunkComplete callback
\* of a synchronous extraction and processJobChunk of a scheduler tick
MaxWriters == 2

WriterIds == 1..MaxWriters

WriterOrigins == { "extract", "tick" }

\* a call of saveHrData: before it, suspended between filterDuplicateRecords
\* and insertMany, or returned
WriterIdle == [pc |-> "idle", origin |-> "extract", hrDataArray |-> << >>, uniqueRecords |-> << >>]

WriterBatch(w) == [kind |-> "writer", user |-> 0, hash |-> w, rand |-> w]

\* saveHrData up to the return of filterDuplicateRecords
saveFilter(w, origin, hrDataArray) ==
    /\ writers[w].pc = "idle"
    /\ writers' = [writers EXCEPT ![w] =
            [pc |-> "filtered", origin |-> origin, hrDataArray |-> hrDataArray,
             uniqueRecords |-> filterDuplicateRecords(master, hrDataArray)]]
    /\ UNCHANGED <<jobVars, extractVars, master, nextId, single, split, analysis>>

\* saveHrData from the return of filterDuplicateRecords: insertMany unless
\* nothing is left
saveInsert(w) ==
    /\ writers[w].pc = "filtered"
    /\ master' = master \o NewMasterDocs(writers[w].uniqueRecords, WriterBatch(w), 0, nextId)
    /\ nextId' = nextId + Len(writers[w].uniqueRecords)
    /\ writers' = [writers EXCEPT ![w].pc = "done"]
    /\ UNCHANGED <<jobVars, extractVars, single, split, analysis>>

InitClient ==
    /\ single = SingleIdle
    /\ split = SplitIdle
    /\ analysis = AnalysisIdle
    /\ writers = [w \in WriterIds |-> WriterIdle]

(***************************************************************************)
(* Specifications                                                          *)
(***************************************************************************)
\* the empty job table and the empty corpora
InitStore ==
    /\ jobs = <<>>
    /\ inflight = {}
    /\ nextTick = 1
    /\ tickLog = <<>>
    /\ master = <<>>
    /\ userData = <<>>
    /\ nextId = 1
    /\ pending = <<>>
    /\ callLog = <<>>
    /\ providerCalls = 0

InitJobs == InitStore /\ InitClient

NextJobs ==
    \/ \E len \in FileLengths : createBackgroundJob(len)
    \/ TickIdle
    \/ TickStart
    \/ \E id \in 1..MaxTicks : TickRead(id)
    \/ \E id \in 1..MaxTicks : \E people \in ChunkResults : TickSucceed(id, people)
    \/ \E id \in 1..MaxTicks : TickFail(id)

SpecJobs == InitJobs /\ [][NextJobs]_vars

(***************************************************************************)
(* UserHrDataService                                                       *)
(***************************************************************************)
\* positions of the user's documents the { userId, $or } filter selects
OwnMatchesIn(coll, u, c) == { i \in MatchesIn(coll, c) : coll[i].user = u }

TestNotOwn(c, u, coll) == FindOne(coll, OwnMatchesIn(coll, u, c)) = NoRecord

masterRecord(c, coll) == FindOne(coll, MatchesIn(coll, c))

\* variant of crossReference: the master lookup result is not recorded
crossReferenceUnflagged(c, masterColl) ==
    [name |-> c.name, email |-> c.email, company |-> c.company,
     isDuplicateInMaster |-> FALSE, masterDataId |-> 0]

\* the cross-reference fields filterUserDuplicateRecords sets on a kept record
crossReference(c, masterColl) ==
    LET m == masterRecord(c, masterColl)
    IN  [name |-> c.name, email |-> c.email, company |-> c.company,
         isDuplicateInMaster |-> (m # NoRecord),
         masterDataId |-> IF m # NoRecord THEN m.id ELSE 0]

filterUserDuplicateRecords(userColl, masterColl, u, hrDataArray) ==
    LET kept == SelectSeq(hrDataArray, LAMBDA c : TestNotOwn(c, u, userColl))
    IN  [ i \in 1..Len(kept) |-> crossReference(kept[i], masterColl) ]

\* a document without chunkIndex
NoChunk == -1

NewUserDocs(records, u, batchId, firstId) ==
    [ i \in 1..Len(records) |->
        [id |-> firstId + i - 1, user |-> u,
         name |-> records[i].name, email |-> records[i].email,
         company |-> records[i].company,
         batchId |-> batchId,
         isDuplicateInMaster |-> records[i].isDuplicateInMaster,
         masterDataId |-> records[i].masterDataId,
         status |-> "processed", chunkIndex |-> NoChunk] ]

\* UserHrDataService.saveUserHrData: the documents it inserts
savedUserDocs(userColl, masterColl, u, hrDataArray, batchId, firstId) ==
    NewUserDocs(filterUserDuplicateRecords(userColl, masterColl, u, hrDataArray),
                u, batchId, firstId)

(***************************************************************************)
(* HrExtractionService and UserHrExtractionService                         *)
(***************************************************************************)
Users == {1, 2}

\* submitted contents; 0 is the empty text
Texts == {1, 2}

\* a text that is missing, empty or only whitespace
BlankText == 0

\* !text || text.trim().length === 0
isBlank(t) == t = BlankText

\* the 8 random hex digits taken from crypto.randomUUID()
RandSuffixes == {1, 2}

\* the first 8 hex digits of the md5 digest of the content
Hash8(t) == (7 * t + 3) % 16

\* `${prefix}${hash8}-${uuid8}`; the prefix carries the entry point and the user
BatchId(kind, u, t, r) == [kind |-> kind, user |-> u, hash |-> Hash8(t), rand |-> r]

\* what one analyzeHrData call on a text of at most maxChunkSize characters
\* ends with: a thrown error or the people of the parsed response
Responses ==
    { [ok |-> FALSE, people |-> <<>>] } \cup { [ok |-> TRUE, people |-> l] : l \in PeopleLists }

checkBatchExists(coll, b) == \E i \in 1..Len(coll) : coll[i].batchId = b

getHrDataByBatch(coll, b) == SelectSeq(coll, LAMBDA rec : rec.batchId = b)

checkUserBatchExists(coll, u, b) ==
    \E i \in 1..Len(coll) : coll[i].user = u /\ coll[i].batchId = b

getUserHrDataByBatch(coll, u, b) ==
    SelectSeq(coll, LAMBDA rec : rec.user = u /\ rec.batchId = b)

PeopleOf(docs) == [ i \in 1..Len(docs) |-> PersonOf(docs[i]) ]

\* variant of validated: the text is not looked at
unvalidated(t) == TRUE

\* the text passes the check at the head of the extraction
validated(t) == ~isBlank(t)

\* extractFromText / extractHrData: the outcome of the call and the shared
\* corpus it leaves
sharedExtraction(kind, t, r, resp) ==
    LET b == BatchId(kind, 0, t, r)
    IN  IF ~validated(t)
        THEN [batchId |-> b, hit |-> FALSE, threw |-> TRUE, calls |-> 0, lookups |-> 0,
              people |-> <<>>, master |-> master, inserted |-> 0]
        ELSE IF checkBatchExists(master, b)
        THEN [batchId |-> b, hit |-> TRUE, threw |-> FALSE, calls |-> 0, lookups |-> 1,
              people |-> PeopleOf(getHrDataByBatch(master, b)),
              master |-> master, inserted |-> 0]
        ELSE IF ~resp.ok
        THEN [batchId |-> b, hit |-> FALSE, threw |-> TRUE, calls |-> 1, lookups |-> 1,
              people |-> <<>>, master |-> master, inserted |-> 0]
        ELSE [batchId |-> b, hit |-> FALSE, threw |-> FALSE, calls |-> 1, lookups |-> 1,
              people |-> resp.people,
              master |-> saveHrData(master, resp.people, b, 0, nextId),
              inserted |-> savedCount(master, resp.people)]

Started == Len(callLog) + Len(pending)

LogEntry(op, u, t, b, hit, threw, calls, people, stored) ==
    [op |-> op, user |-> u, text |-> t, batchId |-> b, hit |-> hit, threw |-> threw,
     calls |-> calls, people |-> people, stored |-> stored, absent |-> {}, lookups |-> 0]

\* the persons of a result that matched nothing in either corpus when the
\* user-scope request started (history only)
AbsentAtStart(u, people) ==
    { c \in { people[i] : i \in 1..Len(people) } :
        /\ ~\E k \in 1..Len(master) : Matches(master[k], c)
        /\ ~\E k \in 1..Len(userData) : userData[k].user = u /\ Matches(userData[k], c) }

SharedKinds == {"text", "file"}

UserKind(kind) == IF kind = "text" THEN "user-text" ELSE "user-file"

\* HrExtractionService.extractFromText (kind "text") / extractHrData (kind "file")
extractFromText(kind, t, r, resp) ==
    /\ Started < MaxCalls
    /\ LET x == sharedExtraction(kind, t, r, resp)
       IN  /\ master' = x.master
           /\ nextId' = nextId + x.inserted
           /\ providerCalls' = providerCalls + x.calls
           /\ callLog' = Append(callLog,
                 [LogEntry(kind, 0, t, x.batchId, x.hit, x.threw, x.calls, x.people, x.inserted)
                    EXCEPT !.lookups = x.lookups])
    /\ UNCHANGED <<userData, pending>>
    /\ UNCHANGED jobVars
    /\ UNCHANGED clientVars

\* UserHrExtractionService.extractUserHrDataFromText / extractUserHrData up to
\* the return of the inner shared-scope extraction
extractUserHrDataFromText(kind, u, t, r, r2, resp) ==
    /\ Started < MaxCalls
    /\ LET b == BatchId(UserKind(kind), u, t, r)
       IN  IF kind = "text" /\ ~validated(t)
           THEN /\ callLog' = Append(callLog,
                      LogEntry(UserKind(kind), u, t, b, FALSE, TRUE, 0, <<>>, 0))
                /\ UNCHANGED <<master, nextId, providerCalls, pending>>
           ELSE IF checkUserBatchExists(userData, u, b)
           THEN /\ callLog' = Append(callLog,
                      [LogEntry(UserKind(kind), u, t, b, TRUE, FALSE, 0,
                                PeopleOf(getUserHrDataByBatch(userData, u, b)), 0)
                         EXCEPT !.lookups = 1])
                /\ UNCHANGED <<master, nextId, providerCalls, pending>>
           ELSE LET x == sharedExtraction(kind, t, r2, resp)
                IN  /\ master' = x.master
                    /\ nextId' = nextId + x.inserted
                    /\ providerCalls' = providerCalls + x.calls
                    /\ IF x.threw \/ Len(x.people) = 0
                       THEN /\ callLog' = Append(callLog,
                                  [LogEntry(UserKind(kind), u, t, b, FALSE, x.threw, x.calls, <<>>, 0)
                                     EXCEPT !.lookups = 1 + x.lookups])
                            /\ UNCHANGED pending
                       ELSE /\ pending' = Append(pending,
                                  [op |-> UserKind(kind), user |-> u, text |-> t, batchId |-> b,
                                   calls |-> x.calls, people |-> x.people,
                                   lookups |-> 1 + x.lookups,
                                   absent |-> AbsentAtStart(u, x.people)])
                            /\ UNCHANGED callLog
    /\ UNCHANGED userData
    /\ UNCHANGED jobVars
    /\ UNCHANGED clientVars

RemoveAt(s, i) == SubSeq(s, 1, i - 1) \o SubSeq(s, i + 1, Len(s))

\* the rest of the user-scope extraction: saveUserHrData and the result
saveUserHrData(i) ==
    /\ i \in 1..Len(pending)
    /\ LET p == pending[i]
           docs == savedUserDocs(userData, master, p.user, p.people, p.batchId, nextId)
       IN  /\ userData' = userData \o docs
           /\ nextId' = nextId + Len(docs)
           /\ callLog' = Append(callLog,
                 [LogEntry(p.op, p.user, p.text, p.batchId, FALSE, FALSE, p.calls,
                           PeopleOf(docs), Len(docs))
                    EXCEPT !.absent = p.absent, !.lookups = p.lookups])
    /\ pending' = RemoveAt(pending, i)
    /\ UNCHANGED <<master, providerCalls>>
    /\ UNCHANGED jobVars
    /\ UNCHANGED clientVars

BatchIdsOf(coll) == { coll[i].batchId : i \in 1..Len(coll) }

\* MongoDBService.deleteHrDataByBatch
deleteHrDataByBatch(b) ==
    /\ Started < MaxCalls
    /\ b \in BatchIdsOf(master)
    /\ master' = SelectSeq(master, LAMBDA rec : rec.batchId # b)
    /\ callLog' = Append(callLog, LogEntry("delete", 0, 0, b, FALSE, FALSE, 0, <<>>, 0))
    /\ UNCHANGED <<userData, nextId, pending, providerCalls>>
    /\ UNCHANGED jobVars
    /\ UNCHANGED clientVars

Init == InitStore /\ InitClient

Next ==
    \/ \E kind \in SharedKinds, t \in Texts, r \in RandSuffixes, resp \in Responses :
          extractFromText(kind, t, r, resp)
    \/ \E b \in BatchIdsOf(master) : deleteHrDataByBatch(b)

Spec == Init /\ [][Next]_vars

\* the content the user-scope requests submit
UserTexts == {1}

\* what the analysis of a user-scope request ends with
UserResponses ==
    { resp \in Responses : Len(resp.people) <= MaxUserPeople }

NextUser ==
    \/ \E u \in Users, t \in UserTexts, r \in RandSuffixes, r2 \in RandSuffixes,
          resp \in UserResponses :
          extractUserHrDataFromText("text", u, t, r, r2, resp)
    \/ \E i \in 1..MaxCalls : saveUserHrData(i)
    \/ \E b \in BatchIdsOf(master) : deleteHrDataByBatch(b)

SpecUser == Init /\ [][NextUser]_vars

(***************************************************************************)
(* UserHrDataService: the operations on a user's records                   *)
(***************************************************************************)
\* _ids are handed out up to this number
MaxUserRecords == 2

RecordIds == 1..MaxUserRecords

ManualBatch(u) == [kind |-> "manual", user |-> u, hash |-> 0, rand |-> 0]

\* the batchIds the callers pass
OpBatches == { BatchId("user-text", 1, 1, 1), ManualBatch(2) }

\* the people arrays the callers pass
OpPeopleLists == { << >>, << Person("Ann", "ann@x.com", "Acme") >> }

\* the changes updateUserHrData is asked to make
Updates == { [field |-> "name", value |-> "Bob"] }

Statuses == { "failed" }

\* variant of ownRecord: the owner is not part of the filter
anyRecord(rec, u, id) == rec.id = id

\* the filter { _id, userId }
ownRecord(rec, u, id) == rec.id = id /\ rec.user = u

\* the filter { userId, batchId }
ownBatch(rec, u, b) == rec.user = u /\ rec.batchId = b

applyUpdate(rec, upd) ==
    IF upd.field = "name" THEN [rec EXCEPT !.name = upd.value]
    ELSE [rec EXCEPT !.company = upd.value]

\* UserHrDataService.saveUserHrData called with records of chunk 0
userSave(u, people, b) ==
    LET docs == savedUserDocs(userData, master, u, people, b, nextId)
    IN  /\ nextId + Len(docs) - 1 <= MaxUserRecords
        /\ userData' = userData \o [ i \in 1..Len(docs) |-> [docs[i] EXCEPT !.chunkIndex = 0] ]
        /\ nextId' = nextId + Len(docs)
        /\ UNCHANGED <<jobVars, master, pending, callLog, providerCalls, clientVars>>

createManualHrData(u, p) ==
    /\ nextId <= MaxUserRecords
    /\ IF OwnMatchesIn(userData, u, p) # {}
       THEN UNCHANGED <<userData, nextId>>
       ELSE /\ userData' = Append(userData,
                  [id |-> nextId, user |-> u, name |-> p.name, email |-> p.email,
                   company |-> p.company, batchId |-> ManualBatch(u),
                   isDuplicateInMaster |-> FALSE, masterDataId |-> 0,
                   status |-> "processed", chunkIndex |-> NoChunk])
            /\ nextId' = nextId + 1
    /\ UNCHANGED <<jobVars, master, pending, callLog, providerCalls, clientVars>>

updateUserHrData(u, id, upd) ==
    /\ LET found == { i \in 1..Len(userData) : ownRecord(userData[i], u, id) }
       IN  IF found = {}
           THEN UNCHANGED userData
           ELSE LET i == CHOOSE k \in found : TRUE
                    changed == applyUpdate(userData[i], upd)
                IN  IF upd.field = "name"
                       /\ \E k \in OwnMatchesIn(userData, u, PersonOf(changed)) : userData[k].id # id
                    THEN UNCHANGED userData
                    ELSE userData' = [ k \in 1..Len(userData) |->
                                          IF ownRecord(userData[k], u, id) THEN applyUpdate(userData[k], upd)
                                          ELSE userData[k] ]
    /\ UNCHANGED <<jobVars, master, nextId, pending, callLog, providerCalls, clientVars>>

deleteUserHrData(u, id) ==
    /\ userData' = SelectSeq(userData, LAMBDA rec : ~ownRecord(rec, u, id))
    /\ UNCHANGED <<jobVars, master, nextId, pending, callLog, providerCalls, clientVars>>

bulkDeleteUserHrData(u, ids) ==
    /\ userData' = SelectSeq(userData, LAMBDA rec : ~(\E id \in ids : ownRecord(rec, u, id)))
    /\ UNCHANGED <<jobVars, master, nextId, pending, callLog, providerCalls, clientVars>>

deleteUserHrDataByBatch(u, b) ==
    /\ userData' = SelectSeq(userData, LAMBDA rec : ~ownBatch(rec, u, b))
    /\ UNCHANGED <<jobVars, master, nextId, pending, callLog, providerCalls, clientVars>>

updateUserHrDataStatus(u, b, chunkIndex, status) ==
    /\ userData' = [ k \in 1..Len(userData) |->
                       IF ownBatch(userData[k], u, b) /\ userData[k].chunkIndex = chunkIndex
                       THEN [userData[k] EXCEPT !.status = status]
                       ELSE userData[k] ]
    /\ UNCHANGED <<jobVars, master, nextId, pending, callLog, providerCalls, clientVars>>

\* the operations of one user
UserOp(u) ==
    \/ \E people \in OpPeopleLists, b \in OpBatches : userSave(u, people, b)
    \/ \E p \in { Person("Ann", NoEmail, "Acme") } : createManualHrData(u, p)
    \/ \E id \in RecordIds, upd \in Updates : updateUserHrData(u, id, upd)
    \/ \E id \in RecordIds : deleteUserHrData(u, id)
    \/ \E ids \in SUBSET RecordIds : bulkDeleteUserHrData(u, ids)
    \/ \E b \in OpBatches : deleteUserHrDataByBatch(u, b)
    \/ \E b \in OpBatches, status \in Statuses : updateUserHrDataStatus(u, b, 0, status)

NextUserOps == \E u \in Users : UserOp(u)

SpecUserOps == Init /\ [][NextUserOps]_vars

\* the texts and provider answers of the requests that exercise the validation
ValidateTexts == {BlankText, 1}

ValidateResponses ==
    { resp \in Responses : resp.people \in { <<>>, << Person("Ann", "ann@x.com", "Acme") >> } }

NextValidate ==
    \/ \E t \in ValidateTexts, r \in RandSuffixes, resp \in ValidateResponses :
          extractFromText("text", t, r, resp)
    \/ \E u \in Users, t \in ValidateTexts, resp \in ValidateResponses :
          extractUserHrDataFromText("text", u, t, 1, 1, resp)
    \/ \E i \in 1..MaxCalls : saveUserHrData(i)

SpecValidate == Init /\ [][NextValidate]_vars

(***************************************************************************)
(* Properties                                                              *)
(***************************************************************************)
Last(s) == s[Len(s)]

TicksOf(j, outcome) ==
    { i \in 1..Len(tickLog) : tickLog[i].job = j /\ tickLog[i].outcome = outcome }

OkTicks(j) == Cardinality(TicksOf(j, "ok"))

FailTicks(j) == Cardinality(TicksOf(j, "fail"))

TickFinished == Len(tickLog') = Len(tickLog) + 1

\* C1: two successive extract calls on identical content in the same scope
\* compute the same batchId, and the second finds the batch the first one
\* persisted and makes no AI-provider call.
C1_IdempotentExtract ==
    \A i \in 1..(Len(callLog) - 1) :
        LET a == callLog[i]
            b == callLog[i + 1]
        IN  (a.op \in SharedKinds /\ b.op = a.op /\ b.text = a.text /\ a.stored > 0)
            => (b.batchId = a.batchId /\ b.hit /\ b.calls = 0)

\* C2: the shared corpus never holds two records with the same {name, email}
\* pair, whatever batches were submitted one after the other.
C2_OneRecordPerNameEmail ==
    \A i, k \in 1..Len(master) :
        (master[i].name = master[k].name /\ master[i].email = master[k].email) => i = k

\* C3: a person found in neither corpus when a user-scope extraction started
\* is stored in that user's corpus with isDuplicateInMaster = false.
C3_AbsentStoredUnflagged ==
    \A i \in 1..Len(callLog) :
        LET e == callLog[i]
        IN  \A c \in e.absent :
                \E k \in 1..Len(userData) :
                    /\ userData[k].user = e.user
                    /\ userData[k].batchId = e.batchId
                    /\ PersonOf(userData[k]) = c
                    /\ userData[k].isDuplicateInMaster = FALSE

C4_SaveStep(i) == pending' = RemoveAt(pending, i) /\ Len(callLog') = Len(callLog) + 1

C4_Occurrences(people, c) == Cardinality({ k \in 1..Len(people) : people[k] = c })

C5_ProcessedWithinTotal ==
    \A j \in 1..Len(jobs) : jobs[j].processedChunks <= jobs[j].totalChunks

LastOkTick(j) ==
    tickLog[CHOOSE i \in 1..Len(tickLog) :
               /\ tickLog[i].job = j /\ tickLog[i].outcome = "ok"
               /\ \A k \in (i + 1)..Len(tickLog) : ~(tickLog[k].job = j /\ tickLog[k].outcome = "ok")].tick

C7_NoOverlapOnJob ==
    \A t1, t2 \in inflight : (t1.job = t2.job) => (t1 = t2)

C8_Allowed ==
    { <<"pending", "processing">>, <<"processing", "completed">>, <<"processing", "failed">> }

\* C8: jobs start pending, change status only along pending -> processing ->
\* {completed, failed}, and a completed or failed job never changes again.
C8_Lifecycle ==
    [][ /\ (Len(jobs') > Len(jobs)) => (Last(jobs').status = "pending")
        /\ \A j \in 1..Len(jobs) :
             /\ (jobs'[j].status # jobs[j].status)
                   => (<<jobs[j].status, jobs'[j].status>> \in C8_Allowed)
             /\ (jobs[j].status \in {"completed", "failed"})
                   => /\ jobs'[j].status = jobs[j].status
                      /\ jobs'[j].processedChunks = jobs[j].processedChunks
                      /\ jobs'[j].completedAt = jobs[j].completedAt
                      /\ jobs'[j].errorMessage = jobs[j].errorMessage
      ]_vars

C10_Changed == { j \in 1..Len(jobs) : jobs'[j] # jobs[j] }

\* C10: a step of a tick changes at most one job; processedChunks moves only
\* when a tick finishes successfully, then by exactly +1 on that tick's job
\* alone; every tick finishes at most once.
C10_OneChunkPerTick ==
    /\ [](\A a, b \in 1..Len(tickLog) : (tickLog[a].tick = tickLog[b].tick) => a = b)
    /\ [][ /\ Cardinality(C10_Changed) <= 1
           /\ \A j \in 1..Len(jobs) :
                LET d == jobs'[j].processedChunks - jobs[j].processedChunks
                IN  /\ d \in {0, 1}
                    /\ (d = 1) <=> (TickFinished /\ Last(tickLog').job = j /\ Last(tickLog').outcome = "ok")
           /\ TickFinished => (C10_Changed \subseteq { Last(tickLog').job })
      ]_vars

\* one job advanced while a second job queued behind it is untouched
C10_Witness ==
    /\ Len(jobs) = 2
    /\ jobs[1].processedChunks = 1
    /\ jobs[1].status = "processing"
    /\ jobs[2] = NewJob(jobs[2].fileLength)

\* the job a starting tick took up in this step (0 when no tick started)
C11_Taken ==
    IF TickIds' \ TickIds = {} THEN 0
    ELSE (CHOOSE t \in inflight' : t.id \notin TickIds).job

\* C11: a starting tick takes up the earliest-created job that is pending or
\* processing, and a job created after a job that is still pending or
\* processing has the status and processedChunks it was created with.
C11_FirstInCreationOrder ==
    /\ [](\A a, b \in 1..Len(jobs) :
            (a < b /\ jobs[a].status \in {"pending", "processing"})
               => (jobs[b].status = "pending" /\ jobs[b].processedChunks = 0))
    /\ [][ (C11_Taken # 0) =>
              /\ jobs[C11_Taken].status \in {"pending", "processing"}
              /\ \A a \in 1..(C11_Taken - 1) : jobs[a].status \notin {"pending", "processing"}
         ]_vars

\* the second job is taken up once the first one is completed
C11_Witness ==
    /\ Len(jobs) = 2
    /\ jobs[1].status = "completed"
    /\ jobs[2].status = "processing"
    /\ \E t \in inflight : t.job = 2

(***************************************************************************)
(* One extraction request on a fresh batch, from the call of               *)
(* GrokService.analyzeHrData to the return of the request                  *)
(***************************************************************************)
MaxChunks == 2

\* the retry limit of one chunk in analyzeHrDataInChunks
chunkMaxRetries == 2

\* variant of chunkGivesUp: one more retry before the chunk is skipped
chunkGivesUpLate(retryCount) == retryCount > chunkMaxRetries + 1

\* the chunk is skipped once the incremented retry count exceeds the limit
chunkGivesUp(retryCount) == retryCount > chunkMaxRetries

\* how one call of analyzeHrDataSingle ends: with the parsed answer or by throwing
SingleResults == { parseGrokResponse(c) : c \in Contents }

SingleOutcome(threw, result) == [threw |-> threw, result |-> result]

SingleOutcomes ==
    { SingleOutcome(TRUE, parseFallback) } \cup { SingleOutcome(FALSE, r) : r \in SingleResults }

\* String.prototype.toLowerCase on the strings of the model
toLowerCase(str) ==
    CASE str \in {"Ann", "ANN"} -> "ann"
      [] str \in {"Acme", "ACME"} -> "acme"
      [] str = "ANN@X.COM" -> "ann@x.com"
      [] OTHER -> str

\* the key of removeDuplicatePeople
\* variant of dedupKey: the case of the letters is kept
dedupKeyCaseSensitive(person) ==
    IF person.email # ""
    THEN person.email
    ELSE person.name \o "-" \o person.company

dedupKey(person) ==
    IF person.email # ""
    THEN toLowerCase(person.email)
    ELSE toLowerCase(person.name) \o "-" \o toLowerCase(person.company)

RECURSIVE removeDuplicatePeople(_)
removeDuplicatePeople(people) ==
    IF Len(people) = 0 THEN << >>
    ELSE LET front == SubSeq(people, 1, Len(people) - 1)
             last == people[Len(people)]
         IN  IF \E k \in 1..Len(front) : dedupKey(front[k]) = dedupKey(last)
             THEN removeDuplicatePeople(front)
             ELSE Append(removeDuplicatePeople(front), last)

\* variant of avgConfidence: the sum is not divided
sumConfidence(totalConfidence, processedChunks) == totalConfidence

avgConfidence(totalConfidence, processedChunks) ==
    IF processedChunks > 0 THEN totalConfidence \div processedChunks ELSE 0

\* the summary template of analyzeHrDataInChunks
chunkSummary(processedChunks, totalChunks, uniquePeople) ==
    "Processed " \o ToString(processedChunks) \o "/" \o ToString(totalChunks)
        \o " chunks successfully, found " \o ToString(uniquePeople) \o " unique people"

\* the value analyzeHrDataInChunks returns
chunkedResult(a) ==
    LET uniquePeople == removeDuplicatePeople(a.allPeople)
    IN  AnalysisResult(uniquePeople,
                       avgConfidence(a.totalConfidence, a.processedChunks),
                       chunkSummary(a.processedChunks, a.totalChunks, Len(uniquePeople)))

\* history of one request: the calls of analyzeHrDataSingle and of
\* onChunkComplete in the order they were made
AttemptEvent(chunkIndex, threw, people) ==
    [kind |-> "attempt", chunkIndex |-> chunkIndex, totalChunks |-> 0,
     people |-> IF threw THEN << >> ELSE people, ok |-> ~threw]

CallbackEvent(chunkIndex, totalChunks, people, ok) ==
    [kind |-> "callback", chunkIndex |-> chunkIndex, totalChunks |-> totalChunks,
     people |-> people, ok |-> ok]

\* variant of eventsOf: the callback is invoked after every call that returned
eventsOfAnyResult(chunkIndex, totalChunks, o, saveOk) ==
    << AttemptEvent(chunkIndex, o.threw, o.result.people) >> \o
    IF ~o.threw
    THEN << CallbackEvent(chunkIndex, totalChunks, o.result.people, saveOk) >>
    ELSE << >>

\* the events of a call of analyzeHrDataSingle and of the callback after it
eventsOf(chunkIndex, totalChunks, o, saveOk) ==
    << AttemptEvent(chunkIndex, o.threw, o.result.people) >> \o
    IF ~o.threw /\ Len(o.result.people) > 0
    THEN << CallbackEvent(chunkIndex, totalChunks, o.result.people, saveOk) >>
    ELSE << >>

AnalysisBatch == BatchId("text", 0, 1, 1)

UserAnalysisBatch(u) == BatchId("user-text", u, 1, 1)

\* variant of orDefault: the confidence is passed on as it is
orNothing(confidence) == confidence

\* aiResult.confidence || 0.8
orDefault(confidence) == IF confidence = 0 THEN Tenths(8) ELSE confidence

\* the result extractFromText builds from the returned analysis
sharedResult(ai) == ExtractionResult(ai.people, orDefault(ai.confidence))

\* the store and the request once analyzeHrData has returned ai: the return of
\* extractFromText and, in the user scope, the rest of extractUserHrDataFromText
afterAnalysis(a, ai, m, nid) ==
    LET shared == sharedResult(ai)
        docs == savedUserDocs(userData, m, a.user, shared.people, UserAnalysisBatch(a.user), nid)
    IN  IF a.scope = "shared"
        THEN [analysis |-> [a EXCEPT !.pc = "returned", !.aiResult = ai, !.result = shared],
              master |-> m, nextId |-> nid, userData |-> userData]
        ELSE IF Len(shared.people) = 0
        THEN [analysis |-> [a EXCEPT !.pc = "returned", !.aiResult = ai,
                                     !.result = ExtractionResult(<< >>, Tenths(1))],
              master |-> m, nextId |-> nid, userData |-> userData]
        ELSE [analysis |-> [a EXCEPT !.pc = "returned", !.aiResult = ai,
                                     !.result = ExtractionResult(PeopleOf(docs), shared.confidence)],
              master |-> m, nextId |-> nid + Len(docs), userData |-> userData \o docs]

\* a request with a non-empty text whose batch is not stored reaches
\* analyzeHrData; chunks is the number of chunks the text is cut into, 0 for a
\* text of at most maxChunkSize characters, which is sent as one request
analyzeStart(scope, u, chunks) ==
    /\ analysis.pc = "idle"
    /\ analysis' = [analysis EXCEPT !.pc = IF chunks = 0 THEN "single" ELSE "chunk",
                                    !.scope = scope, !.user = u, !.totalChunks = chunks]
    /\ UNCHANGED <<jobVars, extractVars, master, nextId, single, split, writers>>

\* the single-request branch of analyzeHrData and what follows it
analyzeSingle(o, saveOk) ==
    /\ analysis.pc = "single"
    /\ LET a == [analysis EXCEPT !.calls = @ + 1, !.events = @ \o eventsOf(0, 1, o, saveOk)]
           people == o.result.people
           saving == ~o.threw /\ Len(people) > 0
           logged == IF saving
                     THEN [a EXCEPT !.saves = Append(@, [chunkIndex |-> 0, people |-> people, ok |-> saveOk])]
                     ELSE a
           next == IF o.threw \/ (saving /\ ~saveOk)
                   THEN [analysis |-> [logged EXCEPT !.pc = "threw"],
                         master |-> master, nextId |-> nextId, userData |-> userData]
                   ELSE IF saving
                   THEN afterAnalysis(logged, o.result,
                                      saveHrData(master, people, AnalysisBatch, 0, nextId),
                                      nextId + savedCount(master, people))
                   ELSE afterAnalysis(logged, o.result, master, nextId)
       IN  /\ analysis' = next.analysis
           /\ master' = next.master
           /\ nextId' = next.nextId
           /\ userData' = next.userData
    /\ UNCHANGED <<jobVars, pending, callLog, providerCalls, single, split, writers>>

\* the for loop of analyzeHrDataInChunks moves to the next chunk or is left
nextChunk(a, m, nid) ==
    LET b == [a EXCEPT !.i = @ + 1, !.retryCount = 0]
    IN  IF b.i < b.totalChunks
        THEN [analysis |-> b, master |-> m, nextId |-> nid, userData |-> userData]
        ELSE afterAnalysis(b, chunkedResult(b), m, nid)

\* one pass of the retry loop of a chunk in analyzeHrDataInChunks
analyzeChunk(o, saveOk) ==
    /\ analysis.pc = "chunk"
    /\ LET a == [analysis EXCEPT !.calls = @ + 1,
                                 !.events = @ \o eventsOf(analysis.i, analysis.totalChunks, o, saveOk)]
           people == o.result.people
           saving == ~o.threw /\ Len(people) > 0
           next ==
             IF o.threw
             THEN IF chunkGivesUp(a.retryCount + 1)
                  THEN nextChunk([a EXCEPT !.retryCount = @ + 1, !.failedChunks = @ + 1], master, nextId)
                  ELSE [analysis |-> [a EXCEPT !.retryCount = @ + 1],
                        master |-> master, nextId |-> nextId, userData |-> userData]
             ELSE LET got == [a EXCEPT !.allPeople = @ \o people,
                                       !.totalConfidence = @ + o.result.confidence,
                                       !.processedChunks = @ + 1,
                                       !.saves = IF saving
                                                 THEN Append(@, [chunkIndex |-> a.i, people |-> people, ok |-> saveOk])
                                                 ELSE @]
                  IN  IF saving /\ saveOk
                      THEN nextChunk(got, saveHrData(master, people, AnalysisBatch, a.i, nextId),
                                     nextId + savedCount(master, people))
                      ELSE nextChunk(got, master, nextId)
       IN  /\ analysis' = next.analysis
           /\ master' = next.master
           /\ nextId' = next.nextId
           /\ userData' = next.userData
    /\ UNCHANGED <<jobVars, pending, callLog, providerCalls, single, split, writers>>

NextAnalyze ==
    \/ \E scope \in {"shared", "user"}, chunks \in 0..MaxChunks :
          analyzeStart(scope, IF scope = "user" THEN 1 ELSE 0, chunks)
    \/ \E o \in SingleOutcomes, saveOk \in BOOLEAN : analyzeSingle(o, saveOk)
    \/ \E o \in SingleOutcomes, saveOk \in BOOLEAN : analyzeChunk(o, saveOk)

SpecAnalyze == Init /\ [][NextAnalyze]_vars

(***************************************************************************)
(* GrokService.analyzeHrDataSingle on its own                              *)
(***************************************************************************)
NextSingle ==
    \/ singleStart
    \/ \E o \in ProviderOutcomes : singleAttempt(o)

SpecSingle == Init /\ [][NextSingle]_vars

C12_Only429(outcomes) == \A i \in 1..Len(outcomes) : outcomes[i] = "429"

\* C12: when the provider answers 429 on the first k calls, 0 <= k <= 3, the
\* client goes on to call k+1, and when that call succeeds analyzeHrDataSingle
\* returns the parsed result of its answer after exactly k+1 calls.
C12_RetryOn429 ==
    LET n == Len(single.outcomes)
    IN  /\ (single.pc # "idle" /\ n <= 3 /\ C12_Only429(single.outcomes))
              => single.pc = "loop"
        /\ ( /\ n >= 1
             /\ n <= 4
             /\ Last(single.outcomes) = "ok"
             /\ C12_Only429(SubSeq(single.outcomes, 1, n - 1)) )
              => /\ single.pc = "returned"
                 /\ single.calls = n
                 /\ single.result = parseGrokResponse(single.answer)

\* three answers of 429, then the fourth call succeeds
C12_Witness ==
    /\ single.pc = "returned"
    /\ single.outcomes = <<"429", "429", "429", "ok">>
    /\ single.calls = 4

C13_NoSuccess(outcomes) == \A i \in 1..Len(outcomes) : outcomes[i] # "ok"

\* C13: whatever mix of 429 answers and other errors the provider gives, one
\* invocation of analyzeHrDataSingle makes at most maxRetries + 1 = 4 calls, and
\* an invocation none of whose calls succeeded has not returned a result: it is
\* still retrying with fewer than 4 calls made, or it has thrown.
C13_BoundedAndThrows ==
    /\ single.calls = Len(single.outcomes)
    /\ single.calls <= maxRetries + 1
    /\ single.calls <= 4
    /\ (single.pc = "returned") => (single.calls >= 1 /\ Last(single.outcomes) = "ok")
    /\ (single.pc # "idle" /\ C13_NoSuccess(single.outcomes))
          => \/ (single.pc = "loop" /\ single.calls < 4)
             \/ single.pc = "threw"

\* four failed calls of mixed kinds end in a throw
C13_Witness ==
    /\ single.pc = "threw"
    /\ single.outcomes = <<"429", "http", "429", "network">>

(***************************************************************************)
(* GrokService.splitTextIntoChunks on its own                              *)
(***************************************************************************)
MaxTextLen == 5

\* the maxChunkSize arguments of the model
ChunkSizes == {2, 3}

SplitTexts == SeqsUpTo(Chars, MaxTextLen)

InitSplit ==
    /\ InitStore
    /\ single = SingleIdle
    /\ analysis = AnalysisIdle
    /\ writers = [w \in WriterIds |-> WriterIdle]
    /\ split \in { [SplitIdle EXCEPT !.text = t, !.maxChunkSize = n] : t \in SplitTexts, n \in ChunkSizes }

NextSplit == splitText

SpecSplit == InitSplit /\ [][NextSplit]_vars

\* Array.prototype.join
RECURSIVE Join(_, _)
Join(parts, sep) ==
    IF Len(parts) = 0 THEN << >>
    ELSE IF Len(parts) = 1 THEN parts[1]
    ELSE parts[1] \o sep \o Join(Tail(parts), sep)

\* C14: joining the chunks splitTextIntoChunks returns with newlines gives
\* back the text it was called with.
C14_RoundTrip ==
    split.done => (Join(split.chunks, << Newline >>) = split.text)

C15_Ranges(n) == { r \in (1..n) \X (1..n) : r[1] <= r[2] }

\* C15: the chunks are cut at line boundaries: each is (up to the whitespace
\* trimmed from its ends) the newline-joined run of consecutive input lines,
\* the runs of successive chunks following one another without sharing a
\* line; and each chunk has length <= maxChunkSize unless it is a single
\* input line that is itself longer than maxChunkSize.
C15_WholeLinesWithinSize ==
    split.done =>
        LET lines == SplitLines(split.text)
            chunks == split.chunks
        IN  /\ \E run \in [1..Len(chunks) -> C15_Ranges(Len(lines))] :
                  /\ \A k \in 1..Len(chunks) :
                        chunks[k] = Trim(Join(SubSeq(lines, run[k][1], run[k][2]), << Newline >>))
                  /\ \A k \in 1..(Len(chunks) - 1) : run[k][2] < run[k + 1][1]
            /\ \A k \in 1..Len(chunks) :
                  \/ Len(chunks[k]) <= split.maxChunkSize
                  \/ /\ \A i \in 1..Len(chunks[k]) : chunks[k][i] # Newline
                     /\ \E i \in 1..Len(lines) :
                           Len(lines[i]) > split.maxChunkSize /\ chunks[k] = Trim(lines[i])

\* a line longer than maxChunkSize came out as a chunk of its own next to another chunk
C15_Witness ==
    /\ split.done
    /\ Len(split.chunks) = 2
    /\ \E k \in 1..2 : Len(split.chunks[k]) > split.maxChunkSize

\* C16: splitTextIntoChunks returns ceil(length / maxChunkSize) chunks,
\* whatever the line lengths of the text (3 chunks for 120,000 characters
\* and maxChunkSize 50,000).
C16_ChunkCount ==
    split.done => (Len(split.chunks) = CeilDiv(Len(split.text), split.maxChunkSize))

\* C17: every result analyzeHrData returns has 0 <= confidence <= 1; on the
\* multi-chunk path it is the average of the confidences of the chunks that
\* were processed, and 0 when no chunk was.
C17_ConfidenceBounds ==
    (analysis.pc = "returned") =>
        /\ analysis.aiResult.confidence >= 0
        /\ analysis.aiResult.confidence <= ConfidenceScale
        /\ (analysis.totalChunks > 0 /\ analysis.processedChunks = 0)
              => analysis.aiResult.confidence = 0
        /\ (analysis.totalChunks > 0 /\ analysis.processedChunks > 0)
              => analysis.aiResult.confidence * analysis.processedChunks = analysis.totalConfidence

\* two chunks, one given up after its retries, one answered with the highest confidence
C17_Witness ==
    /\ analysis.pc = "returned"
    /\ analysis.totalChunks = 2
    /\ analysis.processedChunks = 1
    /\ analysis.failedChunks = 1
    /\ analysis.aiResult.confidence = ConfidenceScale

\* C19: an extraction whose analysis yields no person record returns
\* success = true with an empty people list and confidence 0.1, in the shared
\* scope and in the user scope, also when the answer could not be parsed or
\* every chunk failed.
C19_EmptyResultLowConfidence ==
    (analysis.pc = "returned" /\ Len(analysis.aiResult.people) = 0) =>
        /\ analysis.result.success
        /\ analysis.result.people = << >>
        /\ analysis.result.confidence = Tenths(1)

C18_ExtractOps == {"text", "file", "user-text", "user-file"}

\* C18: a text extraction whose text is missing, empty or only whitespace
\* ends at once with a validation error, in the shared and in the user scope:
\* no batch lookup, no provider call, no write, no change of either corpus,
\* and the request is not kept for a later step.
C18_BlankTextRejected ==
    /\ [](\A i \in 1..Len(pending) : ~isBlank(pending[i].text))
    /\ [][ (Len(callLog') = Len(callLog) + 1 /\ Last(callLog').op \in C18_ExtractOps
              /\ isBlank(Last(callLog').text))
           => /\ Last(callLog').threw
              /\ ~Last(callLog').hit
              /\ Last(callLog').lookups = 0
              /\ Last(callLog').calls = 0
              /\ Last(callLog').stored = 0
              /\ UNCHANGED <<master, userData, nextId, providerCalls, pending>>
         ]_vars

\* a blank text was rejected in the user scope after a request that stored records
C18_Witness ==
    /\ Len(master) > 0
    /\ Len(callLog) = 2
    /\ isBlank(callLog[2].text) /\ callLog[2].op = "user-text" /\ callLog[2].threw

C20_OwnedBy(coll, v) == SelectSeq(coll, LAMBDA rec : rec.user = v)

\* C20: an operation of user U (saveUserHrData, createManualHrData,
\* updateUserHrData, deleteUserHrData, bulkDeleteUserHrData,
\* deleteUserHrDataByBatch, updateUserHrDataStatus), whatever record ids and
\* batchIds it names, leaves the records of every other user V as they were.
C20_OtherUsersUntouched ==
    [][ \A u \in Users :
          UserOp(u) => \A v \in Users \ {u} : C20_OwnedBy(userData', v) = C20_OwnedBy(userData, v)
      ]_vars

\* both users hold a record under the same batchId; one user's record was
\* renamed and marked failed, the other's is as it was stored
C20_Witness ==
    \E i, j \in 1..Len(userData) :
        /\ userData[i].user = 1 /\ userData[j].user = 2
        /\ userData[i].batchId = userData[j].batchId
        /\ userData[i].name = "Bob" /\ userData[i].status = "failed"
        /\ userData[j].name = "Ann" /\ userData[j].status = "processed"

(***************************************************************************)
(* Concurrent writers to the shared corpus                                 *)
(***************************************************************************)
\* the increments the writers save: at most one person each, so that two
\* records of one person can only come from two calls
WriterPeopleLists ==
    { << >>, << Person("Ann", "ann@x.com", "Acme") >>, << Person("Bob", NoEmail, "Acme") >>,
      << Person("Cy", NoEmail, "Beta") >> }

NextWriters ==
    \/ \E w \in WriterIds, origin \in WriterOrigins, hrDataArray \in WriterPeopleLists :
          saveFilter(w, origin, hrDataArray)
    \/ \E w \in WriterIds : saveInsert(w)

SpecWriters == Init /\ [][NextWriters]_vars

\* C21: when two calls of saveHrData, one from a synchronous extraction and
\* one from a scheduler tick or from another synchronous extraction, have both
\* returned and both carried the same person, the shared corpus holds exactly
\* one record of that person.
C21_OneRecordUnderConcurrency ==
    \A w1, w2 \in WriterIds :
        (/\ w1 # w2
         /\ writers[w1].pc = "done" /\ writers[w2].pc = "done"
         /\ writers[w1].origin = "extract"
         /\ writers[w1].hrDataArray # << >>
         /\ writers[w1].hrDataArray = writers[w2].hrDataArray)
        => Cardinality({ i \in 1..Len(master) :
                            PersonOf(master[i]) = writers[w1].hrDataArray[1] }) = 1

(***************************************************************************)
(* The scheduler with a timer that never stops                             *)
(***************************************************************************)
\* Executions of processNextJob are named by a slot that is free again once
\* the execution has returned, and the clock is not recorded: startedAt and
\* completedAt hold SomeTime once they are set.
SomeTime == 1

\* an empty source and one of two chunks
LiveFileLengths == {0, 50001}

\* executions of processNextJob that may be suspended at the same time
MaxLiveInFlight == 1

LiveTickIds == 1..MaxLiveInFlight

FreeTickId == CHOOSE id \in LiveTickIds \ TickIds : \A k \in LiveTickIds \ TickIds : id <= k

\* the timer fires while a job is pending or processing (a firing that finds
\* none returns at once and changes nothing)
LiveTickStart ==
    /\ Cardinality(inflight) < MaxLiveInFlight
    /\ inflight = {} \/ TickMayOverrun
    /\ pendingJobs # {}
    /\ LET j == FirstPending
           id == FreeTickId
       IN  /\ jobs' = [jobs EXCEPT ![j].status = "processing",
                                   ![j].startedAt = SomeTime]
           /\ inflight' = inflight \cup { [id |-> id, job |-> j, pc |-> "read", chunk |-> 0] }
    /\ UNCHANGED <<nextTick, tickLog, master, nextId>>
    /\ UNCHANGED extractVars
    /\ UNCHANGED clientVars

\* analysis and save returned
LiveTickSucceed(id, people) ==
    /\ id \in TickIds
    /\ LET t == TickOf(id)
           j == t.job
       IN  /\ t.pc = "analyze"
           /\ master' = saveHrData(master, people, JobBatch(j), jobs[j].processedChunks, nextId)
           /\ nextId' = nextId + savedCount(master, people)
           /\ jobs' = [jobs EXCEPT ![j] = afterChunk(@, SomeTime)]
           /\ inflight' = inflight \ {t}
    /\ UNCHANGED <<nextTick, tickLog>>
    /\ UNCHANGED extractVars
    /\ UNCHANGED clientVars

\* readFile, the analysis or the save threw
LiveTickFail(id) ==
    /\ id \in TickIds
    /\ LET t == TickOf(id)
       IN  /\ jobs' = [jobs EXCEPT ![t.job] = failedJob(@, SomeTime)]
           /\ inflight' = inflight \ {t}
    /\ UNCHANGED <<nextTick, tickLog, master, nextId>>
    /\ UNCHANGED extractVars
    /\ UNCHANGED clientVars

\* the pending await of execution id returns or throws
LiveTickReturn(id) ==
    \/ TickRead(id)
    \/ \E people \in ChunkResults : LiveTickSucceed(id, people)
    \/ LiveTickFail(id)

NextJobsLive ==
    \/ \E len \in LiveFileLengths : createBackgroundJob(len)
    \/ LiveTickStart
    \/ \E id \in LiveTickIds : TickRead(id)
    \/ \E id \in LiveTickIds : \E people \in ChunkResults : LiveTickSucceed(id, people)
    \/ \E id \in LiveTickIds : LiveTickFail(id)

\* the interval timer keeps firing; readFile, the provider and the store
\* eventually return or throw
FairJobs ==
    /\ WF_vars(LiveTickStart)
    /\ \A id \in LiveTickIds : WF_vars(LiveTickReturn(id))

SpecJobsLive == InitJobs /\ [][NextJobsLive]_vars /\ FairJobs

Terminal(j) == Len(jobs) >= j /\ jobs[j].status \in {"completed", "failed"}

\* C22: every submitted job eventually has status completed or failed,
\* however many jobs were submitted before it.
C22_EveryJobTerminates ==
    \A j \in 1..MaxJobs : (Len(jobs) >= j) ~> Terminal(j)

\* a job submitted behind another one that needed two ticks has terminated
C22_Witness ==
    /\ Len(jobs) = 2
    /\ jobs[1].totalChunks = 2 /\ jobs[1].status = "completed"
    /\ jobs[2].totalChunks >= 1 /\ jobs[2].status = "completed"

(***************************************************************************)
(* Properties of the chunked analysis                                      *)
(***************************************************************************)
\* the calls of analyzeHrDataSingle of the request so far, in order
C23_Attempts == SelectSeq(analysis.events, LAMBDA e : e.kind = "attempt")

C23_AttemptsOf(k) == { x \in 1..Len(C23_Attempts) : C23_Attempts[x].chunkIndex = k }

C23_GaveUp(k) ==
    /\ Cardinality(C23_AttemptsOf(k)) = 3
    /\ \A x \in C23_AttemptsOf(k) : ~C23_Attempts[x].ok

\* C23: in analyzeHrDataInChunks the chunks are analysed in index order, each
\* with at most 3 calls of the single-request analysis; a chunk is left after
\* its first success or its third failure, a chunk with three failures counts
\* as failed and the chunks after it are still analysed; the call never throws
\* and its summary reports the processed and total chunk counts.
C23_PartialFailureNonFatal ==
    LET att == C23_Attempts
        n == analysis.totalChunks
    IN  n > 0 =>
          /\ analysis.pc # "threw"
          /\ Len(att) > 0 => att[1].chunkIndex = 0
          /\ \A k \in 0..(n - 1) : Cardinality(C23_AttemptsOf(k)) <= 3
          /\ \A x \in 1..(Len(att) - 1) :
                IF att[x].ok \/ Cardinality({ y \in C23_AttemptsOf(att[x].chunkIndex) : y <= x }) = 3
                THEN att[x + 1].chunkIndex = att[x].chunkIndex + 1
                ELSE att[x + 1].chunkIndex = att[x].chunkIndex
          /\ analysis.failedChunks = Cardinality({ k \in 0..(n - 1) : C23_GaveUp(k) })
          /\ analysis.pc = "returned" =>
                /\ \A k \in 0..(n - 1) : C23_AttemptsOf(k) # {}
                /\ analysis.processedChunks + analysis.failedChunks = n
                /\ analysis.processedChunks = Cardinality({ x \in 1..Len(att) : att[x].ok })
                /\ analysis.aiResult.summary =
                      chunkSummary(analysis.processedChunks, n, Len(analysis.aiResult.people))

\* the first of two chunks failed three times, the second was analysed and
\* the request returned
C23_Witness ==
    /\ analysis.pc = "returned"
    /\ analysis.totalChunks = 2
    /\ C23_GaveUp(0)
    /\ analysis.processedChunks = 1
    /\ analysis.aiResult.summary = "Processed 1/2 chunks successfully, found 1 unique people"

C24_Callbacks == SelectSeq(analysis.events, LAMBDA e : e.kind = "callback")

\* C24: onChunkComplete is invoked once for each chunk whose analysis returned
\* at least one person, with that chunk's people, its index and the number of
\* chunks, directly after that analysis and before any further analysis; it is
\* not invoked for a chunk whose analysis threw or returned nobody, and the
\* invocations come in increasing chunkIndex order.
C24_CallbackPerSuccessfulChunk ==
    LET ev == analysis.events
        cb == C24_Callbacks
        total == IF analysis.totalChunks = 0 THEN 1 ELSE analysis.totalChunks
    IN  /\ \A x \in 1..Len(ev) :
              ev[x].kind = "callback" =>
                 /\ x > 1
                 /\ ev[x - 1].kind = "attempt" /\ ev[x - 1].ok
                 /\ ev[x - 1].chunkIndex = ev[x].chunkIndex
                 /\ ev[x].people = ev[x - 1].people /\ Len(ev[x].people) > 0
                 /\ ev[x].totalChunks = total
        /\ \A x \in 1..Len(ev) :
              (ev[x].kind = "attempt" /\ ev[x].ok /\ Len(ev[x].people) > 0) =>
                 /\ x < Len(ev)
                 /\ ev[x + 1].kind = "callback"
        /\ \A x, y \in 1..Len(cb) : x < y => cb[x].chunkIndex < cb[y].chunkIndex

\* of two chunks the first failed once and then returned a person, the second
\* returned a person: two invocations, for chunk 0 and chunk 1
C24_Witness ==
    /\ analysis.pc = "returned"
    /\ analysis.totalChunks = 2
    /\ Len(C24_Callbacks) = 2
    /\ C24_Callbacks[1].chunkIndex = 0 /\ C24_Callbacks[2].chunkIndex = 1
    /\ analysis.calls = 3

\* C25: when saving an increment fails during a synchronous extraction, on the
\* single-request path or on the multi-chunk path, the extraction call fails.
C25_SaveErrorSurfaces ==
    (/\ analysis.pc \in {"returned", "threw"}
     /\ \E x \in 1..Len(analysis.events) :
           analysis.events[x].kind = "callback" /\ ~analysis.events[x].ok)
    => analysis.pc = "threw"

(***************************************************************************)
(* The match rule of the duplicate lookups                                 *)
(***************************************************************************)
\* the rule as stated: (a) same email and same name, (b) same email,
\* (c) same name and same company
C26_Rule(rec, c) ==
    \/ (rec.email = c.email /\ rec.name = c.name)
    \/ rec.email = c.email
    \/ (rec.name = c.name /\ rec.company = c.company)

\* C26: a candidate that filterDuplicateRecords dropped matches a stored record
\* by the rule, and a candidate that carries no email and differs from every
\* stored record in name and in company is classified as new.
C26_MatchRule ==
    \A w \in WriterIds :
        (writers[w].pc # "idle" /\ writers[w].hrDataArray # << >>) =>
            LET c == writers[w].hrDataArray[1]
            IN  /\ writers[w].uniqueRecords = << >> =>
                      \E i \in 1..Len(master) : C26_Rule(master[i], c)
                /\ (/\ c.email = NoEmail
                    /\ \A i \in 1..Len(master) :
                          master[i].name # c.name /\ master[i].company # c.company)
                   => writers[w].uniqueRecords = << c >>

(***************************************************************************)
(* Sequences of saveUserHrData calls                                       *)
(***************************************************************************)
\* the people arrays handed to saveUserHrData: up to two persons, the same
\* person twice included
SavePeopleLists ==
    SeqsUpTo({ Person("Ann", "ann@x.com", "Acme"), Person("Bob", NoEmail, "Acme") }, 2)

\* saveUserHrData calls of the users, and a shared-scope extraction that fills
\* the shared corpus in between
NextUserSave ==
    \/ \E u \in Users, people \in SavePeopleLists, b \in OpBatches : userSave(u, people, b)
    \/ \E hrDataArray \in WriterPeopleLists : saveFilter(1, "extract", hrDataArray)
    \/ saveInsert(1)

SpecUserSave == Init /\ [][NextUserSave]_vars

\* C27: after any sequence of saveUserHrData calls, the corpus of a user holds
\* no two records with the same {name, email} pair.
C27_NoOwnDuplicates ==
    \A i, k \in 1..Len(userData) :
        (/\ userData[i].user = userData[k].user
         /\ userData[i].name = userData[k].name
         /\ userData[i].email = userData[k].email) => i = k

(***************************************************************************)
(* removeDuplicatePeople at the end of analyzeHrDataInChunks               *)
(***************************************************************************)
MaxCollected == 3

\* the people the chunks of one request returned: two spellings of a person
\* with an address and two spellings of one without
CollectedPeople ==
    { Person("Ann", "ann@x.com", "Acme"), Person("ANN", "ANN@X.COM", "ACME"),
      Person("Ann", NoEmail, "Acme"), Person("ANN", NoEmail, "ACME") }

\* the loop of analyzeHrDataInChunks has ended with allPeople collected
InitDedup ==
    /\ InitStore
    /\ single = SingleIdle /\ split = SplitIdle /\ writers = [w \in WriterIds |-> WriterIdle]
    /\ \E people \in SeqsUpTo(CollectedPeople, MaxCollected) :
          analysis = [AnalysisIdle EXCEPT !.pc = "collected", !.allPeople = people,
                                          !.totalChunks = Len(people), !.i = Len(people),
                                          !.processedChunks = Len(people)]

\* the rest of analyzeHrDataInChunks
dedupReturn ==
    /\ analysis.pc = "collected"
    /\ analysis' = [analysis EXCEPT !.pc = "deduplicated", !.aiResult = chunkedResult(analysis)]
    /\ UNCHANGED <<jobVars, extractVars, master, nextId, single, split, writers>>

NextDedup == dedupReturn

SpecDedup == InitDedup /\ [][NextDedup]_vars

\* the key as stated: the lowercase email when there is one, otherwise
\* lowercase(name)-lowercase(company)
C28_Key(p) ==
    IF p.email # "" THEN toLowerCase(p.email)
    ELSE toLowerCase(p.name) \o "-" \o toLowerCase(p.company)

\* positions of the first occurrence of each key
C28_First(people) ==
    { i \in 1..Len(people) : \A j \in 1..(i - 1) : C28_Key(people[j]) # C28_Key(people[i]) }

\* C28: the people list analyzeHrDataInChunks returns holds no two entries with
\* the same key; it consists of the first occurrence of each key, in the order
\* of the chunks, and removeDuplicatePeople leaves it as it is.
C28_DeduplicatedResult ==
    analysis.pc = "deduplicated" =>
        LET people == analysis.allPeople
            out == analysis.aiResult.people
            first == C28_First(people)
        IN  /\ \A x, y \in 1..Len(out) : C28_Key(out[x]) = C28_Key(out[y]) => x = y
            /\ Len(out) = Cardinality(first)
            /\ \A n \in 1..Len(out) :
                  out[n] = people[CHOOSE i \in first : Cardinality({ j \in first : j <= i }) = n]
            /\ removeDuplicatePeople(out) = out

\* both spellings of both persons were collected, in alternation
C28_Witness ==
    /\ analysis.pc = "deduplicated"
    /\ analysis.allPeople = << Person("ANN", NoEmail, "ACME"), Person("Ann", "ann@x.com", "Acme"),
                               Person("Ann", NoEmail, "Acme") >>
    /\ analysis.aiResult.people = << Person("ANN", NoEmail, "ACME"), Person("Ann", "ann@x.com", "Acme") >>

(***************************************************************************)
(* GrokService.parseGrokResponse on its own                                *)
(***************************************************************************)
MaxParsePeople == 2

\* the entries of a people array: the ones of RawPeople, one whose name is
\* white space only, and a second usable person
ParseRawPeople == RawPeople \cup { Person(BlankName, "ann@x.com", "Acme"), Person("Bob", "", "Beta") }

\* the matches of the person pattern: name-first objects that parse, and one
\* that does not
ParseMatches == { Match(TRUE, Person("Ann", "ann@x.com", "Acme")), Match(TRUE, Person("Bob", "", "Beta")), BadMatch }

\* The texts parseGrokResponse is given. A bare JSON string runs from the
\* first to the last brace; a string that parses as an object with people ends
\* with a brace; a text without braces holds no object; a string that does not
\* parse has no parsed value.
ParseTexts ==
    { t \in { Text("text", fenced, braces, ends, parses, hasPeople, people, confidence, matches) :
                fenced \in BOOLEAN, braces \in BOOLEAN, ends \in BOOLEAN,
                parses \in {"asis", "fixed", "no"}, hasPeople \in BOOLEAN,
                people \in SeqsUpTo(ParseRawPeople, MaxParsePeople),
                confidence \in { NumberValue(Tenths(9)), NotANumber },
                matches \in SeqsUpTo(ParseMatches, 2) } :
        /\ t.fenced => t.braces
        /\ ~t.fenced => t.endsWithBrace
        /\ ~t.braces => (t.parses = "no" /\ t.matches = << >>)
        /\ (t.parses = "asis" /\ t.hasPeople) => t.endsWithBrace
        /\ t.parses = "no" => (~t.hasPeople /\ t.confidence = NotANumber)
        /\ ~t.hasPeople => t.people = << >> }

\* parseGrokResponse is about to be called on a text
InitParse ==
    /\ InitStore
    /\ split = SplitIdle /\ analysis = AnalysisIdle /\ writers = [w \in WriterIds |-> WriterIdle]
    /\ single \in { [SingleIdle EXCEPT !.pc = "parsing", !.answer = t] : t \in ParseTexts }

parseText ==
    /\ single.pc = "parsing"
    /\ single' = [single EXCEPT !.pc = "parsed", !.result = parseGrokResponse(single.answer)]
    /\ UNCHANGED <<jobVars, extractVars, master, nextId, split, analysis, writers>>

NextParse == parseText

SpecParse == InitParse /\ [][NextParse]_vars

\* no people array can be recovered from the text: it has no braces, or it
\* does not parse and holds no name-first object, or it parses to a value
\* without a people array
C29_Unrecoverable(t) ==
    \/ (~t.fenced /\ ~t.braces)
    \/ (t.parses = "no" /\ t.matches = << >>)
    \/ (t.parses # "no" /\ ~t.hasPeople /\ t.matches = << >>)

\* C29: parseGrokResponse returns a result for every text; for a text from
\* which no people array can be recovered the result is people = [],
\* confidence = 0.1, summary "parse failed"; every returned person has a
\* non-empty name and an email that is empty or matches the address pattern.
C29_ParseNeverThrows ==
    single.pc = "parsed" =>
        /\ C29_Unrecoverable(single.answer) =>
              single.result = AnalysisResult(<< >>, Tenths(1), "parse failed")
        /\ \A i \in 1..Len(single.result.people) :
              /\ single.result.people[i].name # ""
              /\ single.result.people[i].email \in ValidEmails \cup {""}

\* the text is malformed or truncated JSON that holds exactly two complete
\* name-first person objects, which are its people
C30_TwoCompletePersons(t) ==
    /\ t.fenced \/ t.braces
    /\ t.parses # "asis"
    /\ Len(t.matches) = 2
    /\ \A i \in 1..2 : t.matches[i].parses /\ t.matches[i].person.name # ""
    /\ t.parses = "fixed" => (t.hasPeople /\ t.people = peopleArray(t.matches))

\* C30: for such a text, fenced or bare, parseGrokResponse returns exactly
\* the two records, with confidence 0.8 or 0.7.
C30_TruncatedRecovery ==
    (single.pc = "parsed" /\ C30_TwoCompletePersons(single.answer)) =>
        /\ single.result.people = cleanedPeople(peopleArray(single.answer.matches))
        /\ single.result.confidence \in { Tenths(8), Tenths(7) }
====
